---- MODULE Spec2Model ----
(***************************************************************************)
(* QueueCTL: a persistent job queue (jobs table in SQLite), its retry /    *)
(* backoff / dead-letter policy and the worker processes that claim and    *)
(* run jobs.  The shared store is the only state the processes share; each *)
(* SQL statement is one atomic step (connections are opened with           *)
(* isolation_level=None, so "with conn:" opens no transaction and two      *)
(* statements of one method can be interleaved with other processes).      *)
(*                                                                         *)
(* Timestamps are the values of utcnow(); iso() renders them in a fixed    *)
(* width format whose string order is the chronological order, so they are *)
(* modelled by the integer clock value (one unit = one second, the unit of *)
(* the backoff delay).  Several calls may read the same clock value.       *)
(***************************************************************************)
EXTENDS Integers, FiniteSets, Sequences, TLC

\* ---------------------------------------------------------------- bounds
NumWorkers == 2
MaxJobs == 2
MaxTime == 1
MaxRetriesArg == 1
MaxAttemptsArg == 1
MaxClock == 11

Workers == 1..NumWorkers

\* ------------------------------------------------------------- constants
NULL == "NULL"
Commands == {"run.sh"}
ErrMsgs == {"Exit code 1"}

\* ids a payload may carry, and the id enqueue generates from the clock
PayloadIds == {<<"id", 1>>}
GenId(t) == <<"job", t * 1000>>
NoId == <<"none", 0>>

\* get_status: timedelta(seconds=10)
LivenessWindow == 10

\* Config.DEFAULTS
DEFAULTS == [max_retries |-> 3, backoff_base |-> 2]
ConfigKeys == {"max_retries", "backoff_base"}
ConfigValues == [max_retries |-> {0, 1}, backoff_base |-> {0, 1}]

VARIABLES
    now,        \* the clock utcnow() reads
    jobs,       \* the jobs table: id -> row
    config,     \* the config table: key -> value, for the keys that were set
    pc,         \* each worker's position in worker_loop
    now_str,    \* reserve_job's local now_str of each worker
    job,        \* the job dict reserve_job returned to each worker
    moved,      \* history: the id each worker's UPDATE of reserve_job changed
    fails,      \* history: mark_failed calls on a job since enqueue / retry
    enq_attempts, \* history: attempts of a job at enqueue (0 after a retry)
    retried,    \* history: the jobs retry_dead_job has moved back to pending
    reserved_by, \* history: id -> the running worker whose UPDATE of
                \* reserve_job moved it, until a mark_* resolves the job
    stop_file,  \* whether STOP_FILE exists
    workers,    \* the workers table: pid -> row (pid w for worker w)
    status,     \* the result of the last get_status call
    enq_error,  \* history: the error the last enqueue call raised, or NULL
    must_exit   \* history: the loops that were running at a stop_workers call

\* The variables of the worker registry, the stop signal and the queries.
life == <<stop_file, workers, status, enq_error, must_exit>>

vars == <<now, jobs, config, pc, now_str, job, moved, fails, enq_attempts,
          retried, reserved_by, stop_file, workers, status, enq_error,
          must_exit>>

NoStatus == [queried |-> FALSE, jobs |-> <<>>, active |-> 0]

NoJob == [id |-> NoId, command |-> NULL, attempts |-> 0, max_retries |-> 0]

\* The fields of dict(row) the worker loop reads.
JobDict(id) ==
    [id |-> id, command |-> jobs[id].command, attempts |-> jobs[id].attempts,
     max_retries |-> jobs[id].max_retries]

\* backoff_base ** attempts, for the attempts >= 1 that mark_failed computes.
RECURSIVE Pow(_, _)
Pow(b, e) == IF e <= 0 THEN 1 ELSE b * Pow(b, e - 1)

\* ----------------------------------------------------------------- Config
\* Config.get / Config.get_int: the stored value, else the default.
get_int(key) == IF key \in DOMAIN config THEN config[key] ELSE DEFAULTS[key]

\* Python's "x or d": d when x is falsy (0).
Or(x, d) == IF x = 0 THEN d ELSE x

\* Config.set, as the CLI's "config set key value".
ConfigSet(key, v) ==
    /\ config' = [k \in DOMAIN config \cup {key} |->
                     IF k = key THEN v ELSE config[k]]
    /\ UNCHANGED <<now, jobs, pc, now_str, job, moved, fails, enq_attempts, retried>>
    /\ UNCHANGED life
    /\ UNCHANGED reserved_by

\* ---------------------------------------------------------------- enqueue
\* A payload: the optional keys it carries and their values (payloads that
\* carry updated_at or last_error are not drawn).
OptKeys == {"id", "attempts", "max_retries", "created_at"}
PayloadTimes == {0}
Payloads ==
    {p \in [keys : SUBSET OptKeys, command : Commands, id : PayloadIds,
            attempts : 0..MaxAttemptsArg, max_retries : 0..MaxRetriesArg,
            created_at : PayloadTimes] :
        /\ "attempts" \notin p.keys => p.attempts = 0
        /\ "max_retries" \notin p.keys => p.max_retries = 0}

PayloadGet(p, k, d) == IF k \in p.keys THEN p[k] ELSE d

\* The row enqueue builds from a payload at clock value t.
NewRow(p, t) ==
    [command |-> p.command,
     state |-> "pending",
     attempts |-> PayloadGet(p, "attempts", 0),
     max_retries |-> PayloadGet(p, "max_retries", Or(get_int("max_retries"), 3)),
     created_at |-> PayloadGet(p, "created_at", t),
     updated_at |-> t,
     next_run_at |-> t,
     last_error |-> NULL]

NewId(p, t) == PayloadGet(p, "id", GenId(t))

\* JobQueue.enqueue: the INSERT succeeds only for a fresh primary key.
Enqueue(p) ==
    LET id == NewId(p, now) IN
    /\ Cardinality(DOMAIN jobs) < MaxJobs
    /\ id \notin DOMAIN jobs
    /\ jobs' = [i \in DOMAIN jobs \cup {id} |->
                   IF i = id THEN NewRow(p, now) ELSE jobs[i]]
    /\ fails' = [i \in DOMAIN jobs \cup {id} |-> IF i = id THEN 0 ELSE fails[i]]
    /\ enq_attempts' = [i \in DOMAIN jobs \cup {id} |->
                           IF i = id THEN NewRow(p, now).attempts
                           ELSE enq_attempts[i]]
    /\ UNCHANGED <<now, config, pc, now_str, job, moved, retried>>
    /\ UNCHANGED life
    /\ UNCHANGED reserved_by

\* A payload without the key "command".
NoCommand(p) == [p EXCEPT !.command = NULL]
PayloadsNoCommand == {NoCommand(p) : p \in {q \in Payloads : q.keys \subseteq {"id"}}}

\* An INSERT that replaces the row of an existing id.
insert_or_replace(id, row) ==
    [error |-> NULL,
     jobs |-> [i \in DOMAIN jobs \cup {id} |-> IF i = id THEN row ELSE jobs[i]]]

\* INSERT INTO jobs(...) VALUES (...): a duplicate primary key raises
\* sqlite3.IntegrityError and the statement changes nothing.
insert(id, row) ==
    IF id \in DOMAIN jobs
    THEN [error |-> "IntegrityError", jobs |-> jobs]
    ELSE [error |-> NULL,
          jobs |-> [i \in DOMAIN jobs \cup {id} |->
                       IF i = id THEN row ELSE jobs[i]]]

\* JobQueue.enqueue as the CLI calls it: the error it raises (NULL for none)
\* and the jobs table it leaves.  A payload without "command" is refused
\* before any statement runs (SystemExit in the CLI, KeyError in enqueue).
enqueue(p, t) ==
    IF p.command = NULL
    THEN [error |-> "KeyError", jobs |-> jobs]
    ELSE insert(NewId(p, t), NewRow(p, t))

\* An enqueue call with any payload, its outcome recorded.
EnqueueCall(p) ==
    LET r == enqueue(p, now) IN
    /\ r.error = NULL => Cardinality(DOMAIN jobs) < MaxJobs
    /\ jobs' = r.jobs
    /\ enq_error' = r.error
    /\ fails' = [i \in DOMAIN r.jobs |->
                    IF i \in DOMAIN jobs THEN fails[i] ELSE 0]
    /\ enq_attempts' = [i \in DOMAIN r.jobs |->
                    IF i \in DOMAIN jobs THEN enq_attempts[i]
                    ELSE r.jobs[i].attempts]
    /\ UNCHANGED <<now, config, pc, now_str, job, moved, retried>>
    /\ UNCHANGED <<stop_file, workers, status, must_exit>>
    /\ UNCHANGED reserved_by

\* ---------------------------------------------------------------- reserve
\* Eligible without the next_run_at test.
EligibleAnyTime(t) ==
    {i \in DOMAIN jobs : jobs[i].state \in {"pending", "failed"}}

\* WHERE state IN ('pending', 'failed') AND next_run_at <= ?
Eligible(t) ==
    {i \in DOMAIN jobs : /\ jobs[i].state \in {"pending", "failed"}
                         /\ jobs[i].next_run_at <= t}

\* Oldest without the ORDER BY.
AnyRow(S) == S

\* ORDER BY created_at LIMIT 1: any row of the least created_at.
Oldest(S) == {i \in S : \A j \in S : jobs[i].created_at <= jobs[j].created_at}

\* now_str = iso(utcnow()) and the UPDATE of reserve_job (the clock is read
\* in the step of the UPDATE, which the store runs as one statement);
\* rowcount = 0 returns None (the loop sleeps and comes back to its top).
ReserveUpdateAt(w, top) ==
    /\ pc[w] = "reserve"
    /\ IF Eligible(now) = {}
       THEN /\ moved' = [moved EXCEPT ![w] = NoId]
            /\ pc' = [pc EXCEPT ![w] = top]
            /\ UNCHANGED <<jobs, now_str, reserved_by>>
       ELSE \E i \in Oldest(Eligible(now)) :
            /\ jobs' = [jobs EXCEPT ![i].state = "processing",
                                    ![i].updated_at = now,
                                    ![i].next_run_at = now]
            /\ moved' = [moved EXCEPT ![w] = i]
            /\ reserved_by' = [j \in DOMAIN reserved_by \cup {i} |->
                                  IF j = i THEN w ELSE reserved_by[j]]
            /\ now_str' = [now_str EXCEPT ![w] = now]
            /\ pc' = [pc EXCEPT ![w] = "select"]
    /\ UNCHANGED <<now, config, job, fails, enq_attempts, retried>>
    /\ UNCHANGED life

\* WHERE state='processing' AND updated_at=?
Claimed(t) ==
    {i \in DOMAIN jobs : /\ jobs[i].state = "processing"
                         /\ jobs[i].updated_at = t}

\* The SELECT of reserve_job that fetches "the job we just updated".
ReserveSelectAt(w, top) ==
    /\ pc[w] = "select"
    /\ IF Claimed(now_str[w]) = {}
       THEN /\ pc' = [pc EXCEPT ![w] = top]
            /\ job' = [job EXCEPT ![w] = NoJob]
            /\ moved' = [moved EXCEPT ![w] = NoId]
       ELSE \E i \in Oldest(Claimed(now_str[w])) :
            /\ job' = [job EXCEPT ![w] = JobDict(i)]
            /\ pc' = [pc EXCEPT ![w] = "exec"]
            /\ UNCHANGED moved
    /\ now_str' = [now_str EXCEPT ![w] = 0]
    /\ UNCHANGED <<now, jobs, config, fails, enq_attempts, retried>>
    /\ UNCHANGED life
    /\ UNCHANGED reserved_by

\* ------------------------------------------------------ state transitions
\* UPDATE jobs SET state='completed', updated_at=? WHERE id=?
mark_completed(id, t) ==
    [i \in DOMAIN jobs |->
        IF i = id THEN [jobs[i] EXCEPT !.state = "completed", !.updated_at = t]
        ELSE jobs[i]]

\* The policy of mark_failed: the new state and next_run_at for the
\* attempts / max_retries the caller passes, at clock value t.
backoff_base == Or(get_int("backoff_base"), 2)

FailedState(attempts, max_retries) ==
    IF attempts + 1 > max_retries THEN "dead" ELSE "failed"

FailedNextRun(attempts, max_retries, t) ==
    IF attempts + 1 > max_retries THEN t
    ELSE t + Pow(backoff_base, attempts + 1)

\* UPDATE jobs SET state=?, attempts=?, updated_at=?, next_run_at=?,
\* last_error=? WHERE id=?
mark_failed(id, attempts, max_retries, error_msg, t) ==
    [i \in DOMAIN jobs |->
        IF i = id
        THEN [jobs[i] EXCEPT !.state = FailedState(attempts, max_retries),
                             !.attempts = attempts + 1,
                             !.updated_at = t,
                             !.next_run_at = FailedNextRun(attempts, max_retries, t),
                             !.last_error = error_msg]
        ELSE jobs[i]]

\* worker_loop: the command exited with status zero.
RunCompletedAt(w, top) ==
    /\ pc[w] = "exec"
    /\ jobs' = mark_completed(job[w].id, now)
    /\ pc' = [pc EXCEPT ![w] = top]
    /\ job' = [job EXCEPT ![w] = NoJob]
    /\ moved' = [moved EXCEPT ![w] = NoId]
    /\ reserved_by' = [j \in DOMAIN reserved_by \ {job[w].id} |-> reserved_by[j]]
    /\ UNCHANGED <<now, config, now_str, fails, enq_attempts, retried>>
    /\ UNCHANGED life

\* worker_loop: the command exited non-zero or running it raised.
RunFailedAt(w, error_msg, top) ==
    /\ pc[w] = "exec"
    /\ jobs' = mark_failed(job[w].id, job[w].attempts, job[w].max_retries,
                           error_msg, now)
    /\ fails' = [fails EXCEPT ![job[w].id] = @ + 1]
    /\ pc' = [pc EXCEPT ![w] = top]
    /\ job' = [job EXCEPT ![w] = NoJob]
    /\ moved' = [moved EXCEPT ![w] = NoId]
    /\ reserved_by' = [j \in DOMAIN reserved_by \ {job[w].id} |-> reserved_by[j]]
    /\ UNCHANGED <<now, config, now_str, enq_attempts, retried>>
    /\ UNCHANGED life

\* -------------------------------------------------------------------- DLQ
\* retry_dead_job without "AND state='dead'".
retry_any_job(id, t) ==
    [i \in DOMAIN jobs |->
        IF i = id
        THEN [jobs[i] EXCEPT !.state = "pending", !.attempts = 0,
                             !.updated_at = t, !.next_run_at = t,
                             !.last_error = NULL]
        ELSE jobs[i]]

\* UPDATE jobs SET state='pending', attempts=0, updated_at=?, next_run_at=?,
\* last_error=NULL WHERE id=? AND state='dead'
retry_dead_job(id, t) ==
    [i \in DOMAIN jobs |->
        IF i = id /\ jobs[i].state = "dead"
        THEN [jobs[i] EXCEPT !.state = "pending", !.attempts = 0,
                             !.updated_at = t, !.next_run_at = t,
                             !.last_error = NULL]
        ELSE jobs[i]]

\* The CLI's "dlq retry job_id", for a known or an unknown id.
RetryDeadJob(id) ==
    /\ jobs' = retry_dead_job(id, now)
    /\ fails' = [i \in DOMAIN jobs |->
                    IF i = id /\ jobs[i].state = "dead" THEN 0 ELSE fails[i]]
    /\ enq_attempts' = [i \in DOMAIN jobs |->
                    IF i = id /\ jobs[i].state = "dead" THEN 0
                    ELSE enq_attempts[i]]
    /\ retried' = IF id \in DOMAIN jobs /\ jobs[id].state = "dead"
                  THEN retried \cup {id} ELSE retried
    /\ UNCHANGED <<now, config, pc, now_str, job, moved>>
    /\ UNCHANGED life
    /\ UNCHANGED reserved_by

\* ------------------------------------------------------------------ clock
Tick ==
    /\ now < MaxTime
    /\ now' = now + 1
    /\ UNCHANGED <<jobs, config, pc, now_str, job, moved, fails, enq_attempts, retried>>
    /\ UNCHANGED life
    /\ UNCHANGED reserved_by

\* The job handling of worker_loop with the stop signal never set and the
\* heartbeat left out: the top of the loop is the call of reserve_job.
ReserveUpdate(w) == ReserveUpdateAt(w, "reserve")
ReserveSelect(w) == ReserveSelectAt(w, "reserve")
RunCompleted(w) == RunCompletedAt(w, "reserve")
RunFailed(w, error_msg) == RunFailedAt(w, error_msg, "reserve")

\* ------------------------------------------------------- worker registry
\* INSERT INTO workers(pid, name, last_heartbeat, started_at): the row of the
\* process pid (name and the surrogate id are not kept).
register_worker(pid, t) ==
    [i \in DOMAIN workers \cup {pid} |->
        IF i = pid THEN [last_heartbeat |-> t, started_at |-> t] ELSE workers[i]]

\* UPDATE workers SET last_heartbeat=? WHERE pid=?
update_heartbeat(pid, t) ==
    [i \in DOMAIN workers |->
        IF i = pid THEN [workers[i] EXCEPT !.last_heartbeat = t] ELSE workers[i]]

\* DELETE FROM workers WHERE pid=?
unregister_worker(pid) == [i \in DOMAIN workers \ {pid} |-> workers[i]]

\* ----------------------------------------------------------------- status
JobStates == {"pending", "processing", "completed", "failed", "dead"}

\* SELECT COUNT(*) FROM workers WHERE last_heartbeat > cutoff
active_count_strict(t) ==
    Cardinality({p \in DOMAIN workers :
                    workers[p].last_heartbeat > t - LivenessWindow})

\* cutoff = iso(utcnow() - timedelta(seconds=10));
\* SELECT COUNT(*) FROM workers WHERE last_heartbeat >= cutoff
active_count(t) ==
    Cardinality({p \in DOMAIN workers :
                    workers[p].last_heartbeat >= t - LivenessWindow})

\* get_status: the count of jobs per state and the active workers.
GetStatus ==
    /\ status' = [queried |-> TRUE,
                  jobs |-> [st \in JobStates |->
                              Cardinality({i \in DOMAIN jobs : jobs[i].state = st})],
                  active |-> active_count(now)]
    /\ UNCHANGED <<now, jobs, config, pc, now_str, job, moved, fails,
                   enq_attempts, retried, reserved_by>>
    /\ UNCHANGED <<stop_file, workers, enq_error, must_exit>>

\* The clock over a span longer than the liveness window.
LongTick ==
    /\ now < MaxClock
    /\ now' = now + 1
    /\ UNCHANGED <<jobs, config, pc, now_str, job, moved, fails,
                   enq_attempts, retried, reserved_by>>
    /\ UNCHANGED life

\* ------------------------------------------------------------ worker loop
\* Positions of a worker process: "idle" (no process), "register", then the
\* loop: "check" (its top), "reserve", "select", "exec", and the except
\* handlers entered after the command exited zero ("handler_ok") or failed
\* ("handler_fail"); "exit_stop" and "exit_error" are the finally clause,
\* reached by the break and by a propagating exception.
LoopPcs == {"check", "reserve", "select", "exec", "handler_ok", "handler_fail"}
ExitPcs == {"exit_stop", "exit_error"}

Running(w) == pc[w] \in LoopPcs

\* Where an exception that leaves the loop goes without the finally clause.
NoFinally == "idle"

\* try: ... finally: unregister_worker(pid) -- where an exception that
\* leaves the loop goes.
OnError == "exit_error"

\* The positions at which the loop reads the stop signal.
StopPoints == {"check"}

\* WorkerManager.start_workers: removes STOP_FILE and starts the processes
\* S (any number of the free process slots, none for count = 0).
StartWorkers(S) ==
    /\ \A w \in S : pc[w] = "idle"
    /\ stop_file' = FALSE
    /\ pc' = [w \in Workers |-> IF w \in S THEN "register" ELSE pc[w]]
    /\ job' = [w \in Workers |-> IF w \in S THEN NoJob ELSE job[w]]
    /\ moved' = [w \in Workers |-> IF w \in S THEN NoId ELSE moved[w]]
    /\ UNCHANGED <<now, jobs, config, now_str, fails, enq_attempts, retried>>
    /\ UNCHANGED <<workers, status, enq_error, must_exit>>
    /\ UNCHANGED reserved_by

\* WorkerManager.stop_workers: writes STOP_FILE.
StopWorkers ==
    /\ stop_file' = TRUE
    /\ must_exit' = must_exit \cup {w \in Workers : Running(w)}
    /\ UNCHANGED <<now, jobs, config, pc, now_str, job, moved, fails,
                   enq_attempts, retried>>
    /\ UNCHANGED <<workers, status, enq_error>>
    /\ UNCHANGED reserved_by

\* register_worker(pid, name), before the loop.
Register(w) ==
    /\ pc[w] = "register"
    /\ workers' = register_worker(w, now)
    /\ pc' = [pc EXCEPT ![w] = "check"]
    /\ UNCHANGED <<now, jobs, config, now_str, job, moved, fails,
                   enq_attempts, retried>>
    /\ UNCHANGED <<stop_file, status, enq_error, must_exit>>
    /\ UNCHANGED reserved_by

\* The top of the loop: break if STOP_FILE exists, else update_heartbeat.
Poll(w) ==
    /\ pc[w] \in StopPoints
    /\ IF stop_file
       THEN /\ pc' = [pc EXCEPT ![w] = "exit_stop"]
            /\ UNCHANGED workers
       ELSE /\ workers' = update_heartbeat(w, now)
            /\ pc' = [pc EXCEPT ![w] = "reserve"]
    /\ UNCHANGED <<now, jobs, config, now_str, job, moved, fails,
                   enq_attempts, retried>>
    /\ UNCHANGED <<stop_file, status, enq_error, must_exit>>
    /\ UNCHANGED reserved_by

\* The loop's calls of reserve_job, mark_completed and mark_failed; after
\* each the loop is at its top again.
LoopReserveUpdate(w) == ReserveUpdateAt(w, "check")
LoopReserveSelect(w) == ReserveSelectAt(w, "check")
LoopRunCompleted(w) == RunCompletedAt(w, "check")
LoopRunFailed(w, error_msg) == RunFailedAt(w, error_msg, "check")

\* A store call outside the inner try raises (sqlite3.OperationalError when
\* the store stays locked past the timeout): register_worker ends the
\* process, update_heartbeat and reserve_job leave the loop.
StoreError(w) ==
    /\ \/ pc[w] = "register" /\ pc' = [pc EXCEPT ![w] = "idle"]
       \/ pc[w] = "check" /\ ~stop_file /\ pc' = [pc EXCEPT ![w] = OnError]
       \/ pc[w] \in {"reserve", "select"} /\ pc' = [pc EXCEPT ![w] = OnError]
    /\ now_str' = [now_str EXCEPT ![w] = 0]
    /\ UNCHANGED <<now, jobs, config, job, moved, fails, enq_attempts, retried>>
    /\ UNCHANGED life
    /\ UNCHANGED reserved_by

\* The command exited zero and mark_completed raises: "except Exception"
\* catches it.
CompletedRaises(w) ==
    /\ pc[w] = "exec"
    /\ pc' = [pc EXCEPT ![w] = "handler_ok"]
    /\ UNCHANGED <<now, jobs, config, now_str, job, moved, fails,
                   enq_attempts, retried>>
    /\ UNCHANGED life
    /\ UNCHANGED reserved_by

\* The command failed and either running it raised or the mark_failed of
\* the else branch raises: an except clause catches it.
FailedRaises(w) ==
    /\ pc[w] = "exec"
    /\ pc' = [pc EXCEPT ![w] = "handler_fail"]
    /\ UNCHANGED <<now, jobs, config, now_str, job, moved, fails,
                   enq_attempts, retried>>
    /\ UNCHANGED life
    /\ UNCHANGED reserved_by

\* The mark_failed of an except clause, with str(e) as the message.
Handler(w, error_msg) ==
    /\ pc[w] \in {"handler_ok", "handler_fail"}
    /\ jobs' = mark_failed(job[w].id, job[w].attempts, job[w].max_retries,
                           error_msg, now)
    /\ fails' = [fails EXCEPT ![job[w].id] = @ + 1]
    /\ pc' = [pc EXCEPT ![w] = "check"]
    /\ job' = [job EXCEPT ![w] = NoJob]
    /\ moved' = [moved EXCEPT ![w] = NoId]
    /\ reserved_by' = [j \in DOMAIN reserved_by \ {job[w].id} |-> reserved_by[j]]
    /\ UNCHANGED <<now, config, now_str, enq_attempts, retried>>
    /\ UNCHANGED life

\* The mark_failed of an except clause raises (the store is still locked,
\* or backoff_base is configured to a text int() rejects): the exception
\* leaves the loop and the job stays as it is.
HandlerRaises(w) ==
    /\ pc[w] \in {"handler_ok", "handler_fail"}
    /\ pc' = [pc EXCEPT ![w] = OnError]
    /\ UNCHANGED <<now, jobs, config, now_str, job, moved, fails,
                   enq_attempts, retried>>
    /\ UNCHANGED life
    /\ UNCHANGED reserved_by

\* finally: unregister_worker(pid); the process ends.
Unregister(w) ==
    /\ pc[w] \in ExitPcs
    /\ workers' = unregister_worker(w)
    /\ pc' = [pc EXCEPT ![w] = "idle"]
    /\ must_exit' = must_exit \ {w}
    /\ reserved_by' = [j \in {k \in DOMAIN reserved_by : reserved_by[k] # w} |->
                          reserved_by[j]]
    /\ UNCHANGED <<now, jobs, config, now_str, job, moved, fails,
                   enq_attempts, retried>>
    /\ UNCHANGED <<stop_file, status, enq_error>>

\* ---------------------------------------------------------- specification
AllIds == PayloadIds \cup {GenId(t) : t \in 0..MaxTime}

Init ==
    /\ now = 0
    /\ jobs = <<>>
    /\ config = <<>>
    /\ pc = [w \in Workers |-> "reserve"]
    /\ now_str = [w \in Workers |-> 0]
    /\ job = [w \in Workers |-> NoJob]
    /\ moved = [w \in Workers |-> NoId]
    /\ fails = <<>>
    /\ enq_attempts = <<>>
    /\ retried = {}
    /\ reserved_by = <<>>
    /\ stop_file = FALSE
    /\ workers = [w \in Workers |-> [last_heartbeat |-> 0, started_at |-> 0]]
    /\ status = NoStatus
    /\ enq_error = NULL
    /\ must_exit = {}

Next ==
    \/ \E p \in Payloads : Enqueue(p)
    \/ \E w \in Workers : ReserveUpdate(w)
    \/ \E w \in Workers : ReserveSelect(w)
    \/ \E w \in Workers : RunCompleted(w)
    \/ \E w \in Workers, e \in ErrMsgs : RunFailed(w, e)
    \/ \E id \in AllIds : RetryDeadJob(id)
    \/ \E k \in ConfigKeys : \E v \in ConfigValues[k] : ConfigSet(k, v)
    \/ Tick

Spec == Init /\ [][Next]_vars

\* The store with enqueue calls of every kind, their outcome recorded.
NextEnqueue ==
    \/ \E p \in Payloads \cup PayloadsNoCommand : EnqueueCall(p)
    \/ \E w \in Workers : ReserveUpdate(w)
    \/ \E w \in Workers : ReserveSelect(w)
    \/ \E w \in Workers : RunCompleted(w)
    \/ \E w \in Workers, e \in ErrMsgs : RunFailed(w, e)
    \/ \E id \in AllIds : RetryDeadJob(id)
    \/ Tick

EnqueueSpec == Init /\ [][NextEnqueue]_vars

\* The worker fleet: no process is running at first; the jobs are enqueued
\* with payloads that carry at most an id.
LifePayloads == {p \in Payloads : p.keys \subseteq {"id"}}

InitLife ==
    /\ now = 0
    /\ jobs = <<>>
    /\ config = <<>>
    /\ pc = [w \in Workers |-> "idle"]
    /\ now_str = [w \in Workers |-> 0]
    /\ job = [w \in Workers |-> NoJob]
    /\ moved = [w \in Workers |-> NoId]
    /\ fails = <<>>
    /\ enq_attempts = <<>>
    /\ retried = {}
    /\ reserved_by = <<>>
    /\ stop_file = FALSE
    /\ workers = <<>>
    /\ status = NoStatus
    /\ enq_error = NULL
    /\ must_exit = {}

NextLife ==
    \/ \E p \in LifePayloads : Enqueue(p)
    \/ \E S \in SUBSET Workers : StartWorkers(S)
    \/ StopWorkers
    \/ \E w \in Workers : Register(w)
    \/ \E w \in Workers : Poll(w)
    \/ \E w \in Workers : LoopReserveUpdate(w)
    \/ \E w \in Workers : LoopReserveSelect(w)
    \/ \E w \in Workers : LoopRunCompleted(w)
    \/ \E w \in Workers, e \in ErrMsgs : LoopRunFailed(w, e)
    \/ \E w \in Workers : StoreError(w)
    \/ \E w \in Workers : CompletedRaises(w)
    \/ \E w \in Workers : FailedRaises(w)
    \/ \E w \in Workers, e \in ErrMsgs : Handler(w, e)
    \/ \E w \in Workers : HandlerRaises(w)
    \/ \E w \in Workers : Unregister(w)
    \/ Tick

LifeSpec == InitLife /\ [][NextLife]_vars

\* The registry under status queries: loops that start, heartbeat on an
\* empty queue and stop, over a clock span longer than the liveness window.
NextStatus ==
    \/ \E S \in SUBSET Workers : StartWorkers(S)
    \/ StopWorkers
    \/ \E w \in Workers : Register(w)
    \/ \E w \in Workers : Poll(w)
    \/ \E w \in Workers : LoopReserveUpdate(w)
    \/ \E w \in Workers : Unregister(w)
    \/ GetStatus
    \/ LongTick

StatusSpec == InitLife /\ [][NextStatus]_vars

\* ================================================================ claims
\* A step in which job i enters state processing.
Claims(i) == jobs[i].state # "processing" /\ jobs'[i].state = "processing"

\* A step in which mark_failed is called for job i.
Fails(i) == fails'[i] = fails[i] + 1

\* The worker w holds a job that reserve_job returned to it.
Holds(w) == pc[w] = "exec"

\* C1: at most one worker at a time holds a given job: a job is never
\* returned to two callers before its next mark_completed / mark_failed.
C1_AtMostOneClaim ==
    \A w1, w2 \in Workers :
        (w1 # w2 /\ Holds(w1) /\ Holds(w2)) => job[w1].id # job[w2].id

\* C2: every job a reserve call moves to processing is returned to exactly
\* the caller whose call moved it (so N callers and M eligible jobs give
\* min(N, M) distinct jobs): a caller never receives another job than the
\* row its own UPDATE moved.
C2_ReturnedIsMoved ==
    \A w \in Workers : Holds(w) => job[w].id = moved[w]

\* C3: reserve only moves to processing a job that was pending or failed
\* with next_run_at <= now immediately before; dead, completed and
\* processing jobs are never claimed and a failed job is not re-run before
\* its backoff time.
C3_ClaimsOnlyEligible ==
    [][\A i \in DOMAIN jobs :
          Claims(i) => /\ jobs[i].state \in {"pending", "failed"}
                       /\ jobs[i].next_run_at <= now]_vars

\* C3 witness: a job that failed before is processing again, while a dead
\* job whose next_run_at has passed stays dead.
C3_Witness ==
    \E i, d \in DOMAIN jobs :
        /\ jobs[i].state = "processing" /\ fails[i] >= 1
        /\ jobs[d].state = "dead" /\ jobs[d].next_run_at <= now

\* C4: whenever reserve claims a job, no other eligible job (pending or
\* failed, next_run_at <= now) has a strictly smaller created_at.
C4_OldestFirst ==
    [][\A i \in DOMAIN jobs :
          Claims(i) =>
            \A j \in DOMAIN jobs :
                (/\ jobs[j].state \in {"pending", "failed"}
                 /\ jobs[j].next_run_at <= now)
                => jobs[j].created_at >= jobs[i].created_at]_vars

\* C4 witness: a re-eligible failed job was claimed ahead of a younger
\* pending job that is eligible too.
C4_Witness ==
    \E w \in Workers : \E j \in DOMAIN jobs :
        /\ pc[w] = "select" /\ moved[w] \in DOMAIN jobs
        /\ jobs[moved[w]].state = "processing" /\ fails[moved[w]] >= 1
        /\ jobs[j].state = "pending" /\ jobs[j].next_run_at <= now
        /\ jobs[j].created_at > jobs[moved[w]].created_at

\* The six edges of the job state machine.
Edges ==
    {<<"pending", "processing">>, <<"failed", "processing">>,
     <<"processing", "completed">>, <<"processing", "failed">>,
     <<"processing", "dead">>, <<"dead", "pending">>}

\* C5: every change of a job's state follows one of the six edges.
C5_StateMachine ==
    [][\A i \in DOMAIN jobs :
          jobs'[i].state # jobs[i].state
          => <<jobs[i].state, jobs'[i].state>> \in Edges]_vars

\* C6: a completed job never changes state again, and a dead job changes
\* state only to pending.
C6_Terminal ==
    [][\A i \in DOMAIN jobs :
          /\ jobs[i].state = "completed" => jobs'[i].state = "completed"
          /\ jobs[i].state = "dead" => jobs'[i].state \in {"dead", "pending"}]_vars

\* C7: every pending, processing or failed job has attempts <= max_retries.
C7_AttemptsWithinBudget ==
    \A i \in DOMAIN jobs :
        jobs[i].state \in {"pending", "processing", "failed"}
        => jobs[i].attempts <= jobs[i].max_retries

\* The backoff_base the configuration holds (2 when the key was never set).
ConfiguredBase ==
    IF "backoff_base" \in DOMAIN config THEN config["backoff_base"] ELSE 2

\* C8: a mark_failed whose incremented attempts a is <= max_retries sets
\* state failed and next_run_at = now + backoff_base^a, backoff_base being the
\* configured value at that time; with backoff_base = 2 the n-th failure of
\* a job enqueued with attempts 0 has delay 2^n (2, 4, 8, ...).
C8_Backoff ==
    [][\A i \in DOMAIN jobs :
          (Fails(i) /\ jobs'[i].attempts <= jobs'[i].max_retries)
          => /\ jobs'[i].state = "failed"
             /\ jobs'[i].next_run_at = now + Pow(ConfiguredBase, jobs'[i].attempts)
             /\ (ConfiguredBase = 2 /\ enq_attempts[i] = 0)
                => jobs'[i].next_run_at - now = Pow(2, fails'[i])]_vars

\* C9: a job enqueued with attempts 0 and max_retries k is failed after each
\* of its first k failures and dead, with attempts k + 1, on failure k + 1;
\* a mark_failed with attempts already > max_retries yields dead.
C9_DeadLetter ==
    [][\A i \in DOMAIN jobs :
          Fails(i) =>
            /\ (enq_attempts[i] = 0 /\ fails'[i] <= jobs[i].max_retries)
               => jobs'[i].state = "failed"
            /\ (enq_attempts[i] = 0 /\ fails'[i] = jobs[i].max_retries + 1)
               => jobs'[i].state = "dead"
                  /\ jobs'[i].attempts = jobs[i].max_retries + 1
            /\ jobs'[i].attempts - 1 > jobs[i].max_retries
               => jobs'[i].state = "dead"]_vars

\* C10: retry_dead_job(id) turns a dead job into a pending one with
\* attempts 0, no last_error and next_run_at = now, leaving every other
\* job alone; for an unknown id or a job that is not dead nothing changes.
C10_RetryOnlyDead ==
    \A id \in AllIds :
        LET after == retry_dead_job(id, now) IN
        /\ DOMAIN after = DOMAIN jobs
        /\ \A i \in DOMAIN jobs : i # id => after[i] = jobs[i]
        /\ (id \in DOMAIN jobs /\ jobs[id].state # "dead") => after = jobs
        /\ (id \in DOMAIN jobs /\ jobs[id].state = "dead")
           => after[id] = [jobs[id] EXCEPT !.state = "pending", !.attempts = 0,
                                           !.updated_at = now,
                                           !.next_run_at = now,
                                           !.last_error = NULL]

\* C10 witness: a retried job is pending again and eligible with attempts 0
\* and no last_error, next to a job in another state that a retry leaves
\* alone.
C10_Witness ==
    \E i, j \in DOMAIN jobs :
        /\ i \in retried /\ jobs[i].state = "pending" /\ jobs[i].attempts = 0
        /\ jobs[i].last_error = NULL /\ jobs[i].next_run_at <= now
        /\ jobs[j].state \in {"failed", "completed", "processing"}

\* C11: mark_completed on a job that is already completed or already dead,
\* or on an id that does not exist, leaves the job's state unchanged.
C11_IdempotentCompletion ==
    \A id \in AllIds :
        LET after == mark_completed(id, now) IN
        /\ DOMAIN after = DOMAIN jobs
        /\ id \notin DOMAIN jobs => after = jobs
        /\ (id \in DOMAIN jobs /\ jobs[id].state \in {"completed", "dead"})
           => after[id].state = jobs[id].state

\* C19: the stored attempts of a job is its attempts at enqueue (0 after
\* the last retry) plus the number of its failed executions since then.
C19_AttemptsCountFailures ==
    \A i \in DOMAIN jobs : jobs[i].attempts = enq_attempts[i] + fails[i]

\* The max_retries the configuration holds (3 when the key was never set).
ConfiguredMaxRetries ==
    IF "max_retries" \in DOMAIN config THEN config["max_retries"] ELSE 3

\* C20: a job enqueued without max_retries gets the configured max_retries
\* (3 when never set), for every configured value >= 0; a job enqueued with
\* max_retries gets exactly that value.
C20_DefaultRetryBudget ==
    \A p \in Payloads :
        NewRow(p, now).max_retries =
            IF "max_retries" \in p.keys THEN p.max_retries
            ELSE ConfiguredMaxRetries

\* C12: an enqueue with a payload that lacks command, or whose id already
\* exists, raises an error, creates no row and leaves every existing job
\* unchanged (the jobs table is keyed by id).
C12_FailedEnqueueChangesNothing ==
    \A p \in Payloads \cup PayloadsNoCommand :
        LET r == enqueue(p, now) IN
        /\ (p.command = NULL \/ NewId(p, now) \in DOMAIN jobs)
           => (r.error # NULL /\ r.jobs = jobs)
        /\ \A i \in DOMAIN jobs : i \in DOMAIN r.jobs /\ r.jobs[i] = jobs[i]

\* C12 witness: an enqueue with a duplicate id was refused while the job of
\* that id, claimed and failed since its own enqueue, is still there.
C12_Witness ==
    /\ enq_error = "IntegrityError"
    /\ \E i \in PayloadIds : i \in DOMAIN jobs /\ jobs[i].state \in {"failed", "dead"}


\* C13 (stop is eventually obeyed by every loop): a loop that was running
\* when stop_workers was called, and has not exited yet, still has the stop
\* signal to read -- also after a later start_workers.  Without this the
\* loop polls on for ever.
C13_StopStaysVisible ==
    \A w \in must_exit : Running(w) => stop_file

\* C14 (shutdown is between jobs, never mid-job): a loop that exits through
\* the stop signal holds no job, and no job that its reserve_job calls moved
\* to processing is still unresolved.
C14_ShutdownBetweenJobs ==
    \A w \in Workers :
        pc[w] = "exit_stop" =>
            /\ job[w] = NoJob
            /\ \A i \in DOMAIN reserved_by :
                   reserved_by[i] = w => jobs[i].state # "processing"

C16_FailureKeepsLooping ==
    [][\A w \in Workers :
          pc[w] \in {"exec", "handler_ok", "handler_fail"} =>
              pc'[w] \in {"exec", "handler_ok", "handler_fail", "check"}]_vars

\* C18 (the recorded outcome matches the command's outcome): the step a
\* worker takes after its command exited zero does not mark the job failed
\* and does not change its attempts, also when mark_completed raised.
C18_SuccessNeverFailed ==
    [][\A w \in Workers :
          (pc[w] = "handler_ok" /\ pc'[w] # pc[w]) =>
              /\ jobs'[job[w].id].attempts = jobs[job[w].id].attempts
              /\ jobs'[job[w].id].state = jobs[job[w].id].state]_vars

\* C17 (liveness window): the active-worker count a get_status call returns
\* is the number of worker rows whose last_heartbeat is at most 10 seconds
\* before the time of the query.
C17_LivenessWindow ==
    [][status' # status =>
          status'.active =
              Cardinality({p \in DOMAIN workers :
                              now - workers[p].last_heartbeat <= 10})]_vars

\* A query has just counted one active worker out of two rows, one with a
\* heartbeat 11 seconds old and one with a heartbeat 5 seconds old.
C17_Witness ==
    /\ status.queried
    /\ status.active = 1
    /\ \E p, q \in DOMAIN workers :
          /\ now - workers[p].last_heartbeat = 11
          /\ now - workers[q].last_heartbeat = 5

\* The running workers that hold job i: reserve_job has returned it to
\* them, or their SELECT of reserve_job is about to and can return it.
Holders(i) ==
    {w \in Workers :
        /\ Running(w)
        /\ \/ pc[w] \in {"exec", "handler_ok", "handler_fail"} /\ job[w].id = i
           \/ pc[w] = "select" /\ i \in Oldest(Claimed(now_str[w]))}

\* C21 (no job is stranded in processing): every job in state processing
\* is held by a running worker, which will resolve it; without a holder
\* no mark_completed or mark_failed is ever called for it.
C21_NoStrandedJob ==
    \A i \in DOMAIN jobs : jobs[i].state = "processing" => Holders(i) # {}

====
